---- MODULE Spec2Model ----
(***************************************************************************)
(* Model of the RV64_PPAC build driver, BuildRV64PPAC                      *)
(* (tvm/src/codegen/ppac/build_rv64_ppac.cc).                              *)
(*                                                                         *)
(* The driver is modelled statement by statement.  Its two collaborators,  *)
(* CodeAnalysis (../code_analysis.h) and CodeGenRV64PPAC                   *)
(* (./codegen_rv64_ppac.h), are not part of the source at hand: they are   *)
(* modelled from their contracts (the operators named CA_... and CG_...).  *)
(***************************************************************************)
EXTENDS Naturals, Sequences, FiniteSets

\* ------------------------------------------------------------------ bounds

\* Longest function set handed to one build.
MaxFuncs == 3

\* Longest function set of a build in the repeated-invocation specification.
MaxRepeatFuncs == 2

\* Number of builds in the repeated-invocation specification.
MaxBuilds == 3

\* ------------------------------------------------------------- input space

\* Argument identities, in the order the generator prints them.
ArgOrder == <<"a", "b">>

ArgIds == {ArgOrder[n] : n \in 1..Len(ArgOrder)}

Types == {"int32", "float32"}

\* An argument -> type mapping (str2tupleMap<std::string, Type>).
EmptyMap == [x \in {} |-> "int32"]

\* The argument lists of the functions built: none, one argument of either
\* type, two arguments, and a second identity of the other type.
ArgLists ==
    { EmptyMap,
      [x \in {"a"} |-> "int32"],
      [x \in {"a"} |-> "float32"],
      [x \in {"a", "b"} |-> "int32"],
      [x \in {"b"} |-> "float32"] }

\* A LoweredFunc: the arguments it references with their types, and whether
\* its body holds an IR construct the target cannot express.
LoweredFuncs == [args : ArgLists, body : {"ok", "unsupported"}]

\* The small functions used where builds are repeated.
RepeatFuncs ==
    { [args |-> EmptyMap, body |-> "ok"],
      [args |-> EmptyMap, body |-> "unsupported"],
      [args |-> [x \in {"a"} |-> "int32"], body |-> "ok"],
      [args |-> [x \in {"a"} |-> "float32"], body |-> "ok"] }

SeqsUpTo(U, n) == UNION {[1..k -> U] : k \in 0..n}

\* Every symmetric, irreflexive relation on Types: the pairs of distinct
\* types the Analyzer may treat as compatible.
TypePairs == {{t, u} : t \in Types, u \in Types} \ {{t} : t \in Types}

\* ------------------------------------------------------------------- state

VARIABLES
    compat,        \* the Analyzer's compatibility policy (fixed)
    deferred,      \* the Analyzer signals an inconsistency in Finish() (fixed)
    funcs,         \* Array<LoweredFunc> funcs, the argument of the call
    pc,            \* position in BuildRV64PPAC
    i,             \* 1-based index of the function the loop is at
    live,          \* the locals ca, cg, map_arg_type, code exist
    ca,            \* CodeAnalysis ca
    cg,            \* CodeGenRV64PPAC cg: its accumulated text
    map_arg_type,  \* str2tupleMap<std::string, Type> map_arg_type
    code,          \* std::string code
    returned,      \* the call returned a value
    ret,           \* the value returned
    err,           \* the error that left the call
    diag,          \* warnings written to the log by this call
    trace,         \* the collaborator calls made by this call, in order
    build,         \* number of the current call
    first          \* funcs and outcome of the first call

vars == <<compat, deferred, funcs, pc, i, live, ca, cg, map_arg_type, code, returned,
          ret, err, diag, trace, build, first>>

NoError == [kind |-> "none", origin |-> "none", idx |-> 0]

Compatible(t, u) == t = u \/ {t, u} \in compat

\* --------------------------------------- Argument Type Analyzer (contract)

\* A freshly constructed CodeAnalysis: nothing registered.
CA_New == [map |-> EmptyMap, seen |-> {}, pending |-> FALSE]

\* f uses an argument identity with a type incompatible with one observed
\* for the same identity in a function registered before.
CA_Conflict(a, f) ==
    \E x \in DOMAIN f.args :
        \E p \in a.seen : p[1] = x /\ ~Compatible(p[2], f.args[x])

\* The state after registering f: every argument f references gets an entry
\* (an existing entry is overwritten by f's type).
CA_Register(a, f) ==
    [map |-> [x \in DOMAIN a.map \cup DOMAIN f.args |->
                 IF x \in DOMAIN f.args THEN f.args[x] ELSE a.map[x]],
     seen |-> a.seen \cup {<<x, f.args[x]>> : x \in DOMAIN f.args},
     pending |-> a.pending]

\* CodeAnalysis::AddFunction(f).  An inconsistency is signalled here or, by
\* an analyzer that defers it, by the next Finish().
CA_AddFunction(a, f) ==
    IF CA_Conflict(a, f)
    THEN IF deferred
         THEN [ok |-> TRUE, state |-> [CA_Register(a, f) EXCEPT !.pending = TRUE]]
         ELSE [ok |-> FALSE, state |-> a]
    ELSE [ok |-> TRUE, state |-> CA_Register(a, f)]

\* CodeAnalysis::Finish(): the current map, by value.
CA_Finish(a) == [ok |-> ~a.pending, map |-> a.map]

\* ------------------------------------------------ Code Generator (contract)

\* A freshly constructed CodeGenRV64PPAC: an empty text buffer.
CG_New == << >>

RECURSIVE CG_ArgText(_, _, _)
CG_ArgText(f, m, n) ==
    IF n > Len(ArgOrder) THEN << >>
    ELSE LET x == ArgOrder[n]
         IN  (IF x \in DOMAIN f.args
              THEN <<x, IF x \in DOMAIN m THEN m[x] ELSE "untyped">>
              ELSE << >>) \o CG_ArgText(f, m, n + 1)

\* The text of one function: its declaration, with each argument's type
\* resolved through the supplied map, and its body.
CG_Text(f, m) == <<"kernel">> \o CG_ArgText(f, m, 1) \o <<"body">>

\* CodeGenRV64PPAC::AddFunction(f, map)
CG_AddFunction(g, f, m) ==
    IF f.body = "unsupported"
    THEN [ok |-> FALSE, state |-> g]
    ELSE [ok |-> TRUE, state |-> g \o CG_Text(f, m)]

\* CodeGenRV64PPAC::Finish()
CG_Finish(g) == g

\* ------------------------------------------------------------ Build Driver

Call(op, n, m, ok) == [op |-> op, idx |-> n, map |-> m, ok |-> ok]

\* Mutant of Unwind: the error is caught inside the driver, which then
\* returns the text accumulated so far.
UnwindReturnsPartial(kind, origin) ==
    /\ pc' = "done"
    /\ err' = NoError
    /\ returned' = TRUE
    /\ ret' = cg
    /\ live' = FALSE
    /\ UNCHANGED <<ca, cg, map_arg_type, code, diag>>

\* Mutant of Unwind: the error is caught inside the loop, which goes on
\* with the next function.
UnwindContinues(kind, origin) ==
    /\ pc' = "loop"
    /\ UNCHANGED <<ca, cg, map_arg_type, code, returned, ret, err, diag, live>>

\* An exception thrown by a collaborator: BuildRV64PPAC has no handler, so
\* the call is left at once, its locals go out of scope, nothing is returned
\* and the statements after the throwing one are not executed.
Unwind(kind, origin) ==
    /\ pc' = "failed"
    /\ err' = [kind |-> kind, origin |-> origin, idx |-> i]
    /\ live' = FALSE
    /\ UNCHANGED <<ca, cg, map_arg_type, code, returned, ret, diag>>

\* Mutant of Construct: the generator is a static object, constructed once
\* and kept from call to call.
ConstructStaticCg ==
    /\ pc = "enter"
    /\ ca' = CA_New
    /\ cg' = cg
    /\ map_arg_type' = EmptyMap
    /\ code' = << >>
    /\ live' = TRUE
    /\ i' = 0
    /\ pc' = "loop"
    /\ UNCHANGED <<compat, deferred, funcs, returned, ret, err, diag, trace, build, first>>

\* CodeAnalysis ca; CodeGenRV64PPAC cg;
Construct ==
    /\ pc = "enter"
    /\ ca' = CA_New
    /\ cg' = CG_New
    /\ map_arg_type' = EmptyMap
    /\ code' = << >>
    /\ live' = TRUE
    /\ i' = 0
    /\ pc' = "loop"
    /\ UNCHANGED <<compat, deferred, funcs, returned, ret, err, diag, trace, build, first>>

\* Mutant of LoopHead: the last function of the set is left out.
LoopHeadSkipsLast ==
    /\ pc = "loop"
    /\ IF i + 1 < Len(funcs)
       THEN i' = i + 1 /\ pc' = "ca_add"
       ELSE i' = i /\ pc' = "cg_finish"
    /\ UNCHANGED <<compat, deferred, funcs, live, ca, cg, map_arg_type, code, returned,
                   ret, err, diag, trace, build, first>>

\* Mutant of LoopHead: the generator is declared inside the loop body, a
\* new one for every function.
LoopHeadFreshCg ==
    /\ pc = "loop"
    /\ IF i < Len(funcs)
       THEN i' = i + 1 /\ pc' = "ca_add" /\ cg' = CG_New
       ELSE i' = i /\ pc' = "cg_finish" /\ cg' = cg
    /\ UNCHANGED <<compat, deferred, funcs, live, ca, map_arg_type, code, returned,
                   ret, err, diag, trace, build, first>>

\* Mutant of LoopHead: the analyzer is declared inside the loop body, a
\* new one for every function.
LoopHeadFreshCa ==
    /\ pc = "loop"
    /\ IF i < Len(funcs)
       THEN i' = i + 1 /\ pc' = "ca_add" /\ ca' = CA_New
       ELSE i' = i /\ pc' = "cg_finish" /\ ca' = ca
    /\ UNCHANGED <<compat, deferred, funcs, live, cg, map_arg_type, code, returned,
                   ret, err, diag, trace, build, first>>

\* for (LoweredFunc f : funcs)
LoopHead ==
    /\ pc = "loop"
    /\ IF i < Len(funcs)
       THEN i' = i + 1 /\ pc' = "ca_add"
       ELSE i' = i /\ pc' = "cg_finish"
    /\ UNCHANGED <<compat, deferred, funcs, live, ca, cg, map_arg_type, code, returned,
                   ret, err, diag, trace, build, first>>

\* ca.AddFunction(f);
CallCaAddFunction ==
    /\ pc = "ca_add"
    /\ LET r == CA_AddFunction(ca, funcs[i])
       IN  /\ trace' = Append(trace, Call("ca.AddFunction", i, EmptyMap, r.ok))
           /\ IF r.ok
              THEN /\ ca' = r.state
                   /\ pc' = "ca_finish"
                   /\ UNCHANGED <<live, cg, map_arg_type, code, returned, ret,
                                  err, diag>>
              ELSE Unwind("inconsistent argument type", "ca.AddFunction")
    /\ UNCHANGED <<compat, deferred, funcs, i, build, first>>

\* Mutant of CallCaFinish: the value of ca.Finish() is not stored, the map
\* handed on is the one declared empty on the line before.
CallCaFinishDropped ==
    /\ pc = "ca_finish"
    /\ LET r == CA_Finish(ca)
       IN  /\ trace' = Append(trace, Call("ca.Finish", i, EmptyMap, r.ok))
           /\ IF r.ok
              THEN /\ map_arg_type' = EmptyMap
                   /\ pc' = "cg_add"
                   /\ UNCHANGED <<live, ca, cg, code, returned, ret, err, diag>>
              ELSE Unwind("inconsistent argument type", "ca.Finish")
    /\ UNCHANGED <<compat, deferred, funcs, i, build, first>>

\* str2tupleMap<std::string, Type> map_arg_type; map_arg_type = ca.Finish();
CallCaFinish ==
    /\ pc = "ca_finish"
    /\ LET r == CA_Finish(ca)
       IN  /\ trace' = Append(trace, Call("ca.Finish", i, EmptyMap, r.ok))
           /\ IF r.ok
              THEN /\ map_arg_type' = r.map
                   /\ pc' = "cg_add"
                   /\ UNCHANGED <<live, ca, cg, code, returned, ret, err, diag>>
              ELSE Unwind("inconsistent argument type", "ca.Finish")
    /\ UNCHANGED <<compat, deferred, funcs, i, build, first>>

\* cg.AddFunction(f, map_arg_type); and the end of the loop body, where
\* map_arg_type goes out of scope.
CallCgAddFunction ==
    /\ pc = "cg_add"
    /\ LET r == CG_AddFunction(cg, funcs[i], map_arg_type)
       IN  /\ trace' = Append(trace, Call("cg.AddFunction", i, map_arg_type, r.ok))
           /\ IF r.ok
              THEN /\ cg' = r.state
                   /\ map_arg_type' = EmptyMap
                   /\ pc' = "loop"
                   /\ UNCHANGED <<live, ca, code, returned, ret, err, diag>>
              ELSE Unwind("unsupported construct", "cg.AddFunction")
    /\ UNCHANGED <<compat, deferred, funcs, i, build, first>>

\* std::string code = cg.Finish();
CallCgFinish ==
    /\ pc = "cg_finish"
    /\ trace' = Append(trace, Call("cg.Finish", 0, EmptyMap, TRUE))
    /\ code' = CG_Finish(cg)
    /\ pc' = "log"
    /\ UNCHANGED <<compat, deferred, funcs, i, live, ca, cg, map_arg_type, returned,
                   ret, err, diag, build, first>>

\* Mutant of LogWarning: the warning is written once per function.
LogWarningPerFunction ==
    /\ pc = "log"
    /\ diag' = diag + Len(funcs)
    /\ trace' = Append(trace, Call("LOG", 0, EmptyMap, TRUE))
    /\ pc' = "return"
    /\ UNCHANGED <<compat, deferred, funcs, i, live, ca, cg, map_arg_type, code,
                   returned, ret, err, build, first>>

\* Mutant of LogWarning: the warning is written only when text was generated.
LogWarningIfText ==
    /\ pc = "log"
    /\ diag' = IF code = << >> THEN diag ELSE diag + 1
    /\ trace' = IF code = << >> THEN trace
                ELSE Append(trace, Call("LOG", 0, EmptyMap, TRUE))
    /\ pc' = "return"
    /\ UNCHANGED <<compat, deferred, funcs, i, live, ca, cg, map_arg_type, code,
                   returned, ret, err, build, first>>

\* LOG(WARNING) << "RV64_PPAC backend doesn't have runtime, return kernel code";
LogWarning ==
    /\ pc = "log"
    /\ diag' = diag + 1
    /\ trace' = Append(trace, Call("LOG", 0, EmptyMap, TRUE))
    /\ pc' = "return"
    /\ UNCHANGED <<compat, deferred, funcs, i, live, ca, cg, map_arg_type, code,
                   returned, ret, err, build, first>>

\* return code;  The locals go out of scope.
Return ==
    /\ pc = "return"
    /\ ret' = code
    /\ returned' = TRUE
    /\ live' = FALSE
    /\ pc' = "done"
    /\ UNCHANGED <<compat, deferred, funcs, i, ca, cg, map_arg_type, code, err, diag,
                   trace, build, first>>

Terminal == pc \in {"done", "failed"}

\* TVM_REGISTER_API("codegen.build_rv64_ppac"): the host calls the build
\* again, on the function set fs, after the previous call has ended.  The
\* storage of the previous call's locals is dead and keeps what it held.
Invoke(fs) ==
    /\ Terminal
    /\ build < MaxBuilds
    /\ build' = build + 1
    /\ first' = IF build = 1
                THEN [funcs |-> funcs, done |-> TRUE, returned |-> returned,
                      ret |-> ret, err |-> err]
                ELSE first
    /\ funcs' = fs
    /\ pc' = "enter"
    /\ i' = 0
    /\ returned' = FALSE
    /\ ret' = << >>
    /\ err' = NoError
    /\ diag' = 0
    /\ trace' = << >>
    /\ UNCHANGED <<compat, deferred, live, ca, cg, map_arg_type, code>>

\* The state at the entry of a call on the function set fs.
Enter(fs) ==
    /\ funcs = fs
    /\ pc = "enter"
    /\ i = 0
    /\ live = FALSE
    /\ ca = CA_New
    /\ cg = CG_New
    /\ map_arg_type = EmptyMap
    /\ code = << >>
    /\ returned = FALSE
    /\ ret = << >>
    /\ err = NoError
    /\ diag = 0
    /\ trace = << >>
    /\ build = 1
    /\ first = [funcs |-> fs, done |-> FALSE, returned |-> FALSE,
                ret |-> << >>, err |-> NoError]

Init ==
    /\ compat \in SUBSET TypePairs
    /\ deferred \in BOOLEAN
    /\ \E fs \in SeqsUpTo(LoweredFuncs, MaxFuncs) : Enter(fs)

Next ==
    \/ Construct
    \/ LoopHead
    \/ CallCaAddFunction
    \/ CallCaFinish
    \/ CallCgAddFunction
    \/ CallCgFinish
    \/ LogWarning
    \/ Return

Spec == Init /\ [][Next]_vars

\* Repeated builds on small function sets.
InitRepeat ==
    /\ compat \in SUBSET TypePairs
    /\ deferred \in BOOLEAN
    /\ \E fs \in SeqsUpTo(RepeatFuncs, MaxRepeatFuncs) : Enter(fs)

NextRepeat ==
    \/ Next
    \/ \E fs \in SeqsUpTo(RepeatFuncs, MaxRepeatFuncs) : Invoke(fs)

SpecRepeat == InitRepeat /\ [][NextRepeat]_vars

\* ------------------------------------------------------------ vocabulary

\* The analyzer after exactly funcs[1..k] have been registered.
RECURSIVE AnalyzerAfter(_)
AnalyzerAfter(k) ==
    IF k = 0 THEN CA_New ELSE CA_Register(AnalyzerAfter(k - 1), funcs[k])

\* The texts of funcs[1..k], each generated with the snapshot taken right
\* after its own registration, one after the other in input order.
RECURSIVE TextUpTo(_)
TextUpTo(k) ==
    IF k = 0 THEN << >>
    ELSE TextUpTo(k - 1) \o CG_Text(funcs[k], AnalyzerAfter(k).map)

IsPrefix(s, t) == Len(s) <= Len(t) /\ SubSeq(t, 1, Len(s)) = s

\* The calls of the trace without the maps: <<operation, function index>>.
Ops == [n \in 1..Len(trace) |-> <<trace[n].op, trace[n].idx>>]

RECURSIVE ExpectedOps(_)
ExpectedOps(k) ==
    IF k = 0 THEN << >>
    ELSE ExpectedOps(k - 1) \o
         << <<"ca.AddFunction", k>>, <<"ca.Finish", k>>, <<"cg.AddFunction", k>> >>

\* funcs[k] uses an argument identity with a type incompatible with the one
\* an earlier function of the input uses for it.
ConflictAt(k) ==
    \E j \in 1..(k - 1) :
        \E x \in DOMAIN funcs[j].args \cap DOMAIN funcs[k].args :
            ~Compatible(funcs[j].args[x], funcs[k].args[x])

HasConflict == \E k \in 1..Len(funcs) : ConflictAt(k)

FirstConflict ==
    CHOOSE k \in 1..Len(funcs) : ConflictAt(k) /\ \A j \in 1..(k - 1) : ~ConflictAt(j)

UnsupportedAt(k) == funcs[k].body = "unsupported"

HasUnsupported == \E k \in 1..Len(funcs) : UnsupportedAt(k)

FirstUnsupported ==
    CHOOSE k \in 1..Len(funcs) :
        UnsupportedAt(k) /\ \A j \in 1..(k - 1) : ~UnsupportedAt(j)

AnalyzerOrigins == {"ca.AddFunction", "ca.Finish"}

IsGenAdd(c) == c.op = "cg.AddFunction"

\* The snapshots the driver has taken so far in this build, oldest first:
\* those handed to the generator and the one about to be handed to it.
SnapSeq ==
    LET used == SelectSeq(trace, IsGenAdd)
    IN  [n \in 1..Len(used) |-> used[n].map]
            \o (IF pc = "cg_add" THEN <<map_arg_type>> ELSE << >>)

\* ------------------------------------------------------------------ claims

\* C1: the map handed to the generator with function k is the analyzer's map
\* after exactly funcs[1..k] were registered; it shows nothing of a later
\* function, and the map recorded for an earlier function stays what it was
\* while later functions are registered.
C1_SnapshotPerFunction ==
    /\ \A n \in 1..Len(trace) :
          trace[n].op = "cg.AddFunction"
              => trace[n].map = AnalyzerAfter(trace[n].idx).map
    /\ pc = "cg_add" => map_arg_type = AnalyzerAfter(i).map

\* C1 witness: a finished build whose first function was generated with a
\* map that differs from the map after the second registration.
C1_Witness ==
    /\ pc = "done"
    /\ Len(funcs) >= 2
    /\ AnalyzerAfter(1).map # AnalyzerAfter(2).map
    /\ \E n \in 1..Len(trace) :
          /\ trace[n].op = "cg.AddFunction"
          /\ trace[n].idx = 1
          /\ trace[n].map = AnalyzerAfter(1).map

C3_AppendOnly ==
    /\ [][IsPrefix(cg, cg')]_vars
    /\ [](pc \in {"loop", "cg_finish", "log", "return"} => cg = TextUpTo(i))
    /\ [](pc = "cg_add" => cg = TextUpTo(i - 1))
    /\ [](pc = "done" => ret = TextUpTo(Len(funcs)))
    /\ [](\A k \in 1..Len(funcs) :
             /\ IsPrefix(TextUpTo(k - 1), TextUpTo(k))
             /\ Len(TextUpTo(k - 1)) < Len(TextUpTo(k)))

\* C3 witness: a build of two functions sharing an argument identity with
\* the same type returned the first text followed by the second.
C3_Witness ==
    /\ pc = "done"
    /\ Len(funcs) = 2
    /\ "a" \in DOMAIN funcs[1].args \cap DOMAIN funcs[2].args
    /\ funcs[1].args["a"] = funcs[2].args["a"]
    /\ "b" \in DOMAIN funcs[2].args \ DOMAIN funcs[1].args
    /\ ret = CG_Text(funcs[1], funcs[1].args) \o CG_Text(funcs[2], funcs[2].args)

\* C4 as stated: whenever two functions of the input conflict, the build
\* fails with the analyzer's inconsistent-argument-type error.
C4_Original ==
    (Terminal /\ HasConflict)
        => /\ pc = "failed"
           /\ ~returned
           /\ err.kind = "inconsistent argument type"
           /\ err.origin \in AnalyzerOrigins

\* C4 amended: whenever two functions of the input conflict, the build fails
\* and returns no text; the error is the analyzer's inconsistent-argument-type
\* error, raised at the first conflicting function and not caught, unless a
\* function before that one holds an unsupported construct, in which case it
\* is the generator's unsupported-construct error for the first such function.
C4_ConflictFails ==
    (Terminal /\ HasConflict)
        => /\ pc = "failed"
           /\ ~returned
           /\ ret = << >>
           /\ IF HasUnsupported /\ FirstUnsupported < FirstConflict
              THEN err = [kind |-> "unsupported construct",
                          origin |-> "cg.AddFunction", idx |-> FirstUnsupported]
              ELSE /\ err.kind = "inconsistent argument type"
                   /\ err.origin \in AnalyzerOrigins
                   /\ err.idx = FirstConflict

\* C4 witness: the third function conflicts with the first, text for two
\* functions had been generated, and the build failed in the analyzer.
C4_Witness ==
    /\ pc = "failed"
    /\ Len(funcs) = 3
    /\ HasConflict
    /\ FirstConflict = 3
    /\ err.kind = "inconsistent argument type"
    /\ cg = TextUpTo(2)
    /\ ~returned

\* C5 as stated: whenever a function of the input holds an unsupported
\* construct, the build fails with the generator's unsupported-construct error.
C5_Original ==
    (Terminal /\ HasUnsupported)
        => /\ pc = "failed"
           /\ ~returned
           /\ err.kind = "unsupported construct"
           /\ err.origin = "cg.AddFunction"

\* C5 amended: whenever a function of the input holds an unsupported
\* construct, the build fails and returns no text, with no recovery or retry;
\* the error is the generator's unsupported-construct error for the first such
\* function, whatever its position, unless the analyzer finds an argument-type
\* conflict at or before that function, in which case it is the analyzer's
\* inconsistent-argument-type error.
C5_UnsupportedFails ==
    (Terminal /\ HasUnsupported)
        => /\ pc = "failed"
           /\ ~returned
           /\ ret = << >>
           /\ IF HasConflict /\ FirstConflict <= FirstUnsupported
              THEN /\ err.kind = "inconsistent argument type"
                   /\ err.origin \in AnalyzerOrigins
                   /\ err.idx = FirstConflict
              ELSE /\ err = [kind |-> "unsupported construct",
                             origin |-> "cg.AddFunction", idx |-> FirstUnsupported]
                   /\ Len(SelectSeq(trace, IsGenAdd)) = FirstUnsupported

\* C5 witness: the last of three functions holds the unsupported construct
\* and the build failed in the generator.
C5_Witness ==
    /\ pc = "failed"
    /\ Len(funcs) = 3
    /\ HasUnsupported
    /\ FirstUnsupported = 3
    /\ err.kind = "unsupported construct"
    /\ cg # << >>

\* C6: on the empty function set no analyzer call and no generator
\* AddFunction is made, no error is raised, and the build returns the empty
\* text after writing the warning.
C6_EmptyInput ==
    Len(funcs) = 0
        => /\ pc # "failed"
           /\ err = NoError
           /\ \A n \in 1..Len(trace) : trace[n].op \in {"cg.Finish", "LOG"}
           /\ pc = "done"
                 => /\ returned
                    /\ ret = << >>
                    /\ diag = 1
                    /\ Ops = << <<"cg.Finish", 0>>, <<"LOG", 0>> >>

\* C6 witness: the build of the empty set has returned.
C6_Witness == Len(funcs) = 0 /\ pc = "done" /\ returned

\* C7: every call starts from a freshly constructed analyzer and generator,
\* and a call on the function set of the first call ends as the first call
\* did (same text, same error), whatever was built in between.
C7_FreshPerInvocation ==
    /\ (pc = "loop" /\ i = 0) => (ca = CA_New /\ cg = CG_New)
    /\ (Terminal /\ first.done /\ funcs = first.funcs)
          => /\ returned = first.returned
             /\ ret = first.ret
             /\ err = first.err

\* C7 witness: the third call repeats the first call's non-empty function
\* set and has returned non-empty text.
C7_Witness ==
    /\ build = 3
    /\ pc = "done"
    /\ first.done
    /\ funcs = first.funcs
    /\ ret # << >>
    /\ ret = first.ret

\* C8: each snapshot holds an entry for every argument of every function
\* registered so far; from one snapshot to the next no entry disappears and
\* an entry's type changes only to a compatible type.
C8_SnapshotsGrow ==
    \A n \in 1..Len(SnapSeq) :
        /\ \A k \in 1..n : DOMAIN funcs[k].args \subseteq DOMAIN SnapSeq[n]
        /\ n > 1 =>
              /\ DOMAIN SnapSeq[n - 1] \subseteq DOMAIN SnapSeq[n]
              /\ \A x \in DOMAIN SnapSeq[n - 1] :
                    Compatible(SnapSeq[n - 1][x], SnapSeq[n][x])

\* C8 witness: three snapshots; the second adds a key to the first and the
\* third overwrites an entry with a different, compatible type.
C8_Witness ==
    /\ Len(SnapSeq) = 3
    /\ DOMAIN SnapSeq[1] # DOMAIN SnapSeq[2]
    /\ \E x \in DOMAIN SnapSeq[2] : SnapSeq[2][x] # SnapSeq[3][x]

\* C9: a build that returns has called, for each function in input order,
\* ca.AddFunction, ca.Finish, cg.AddFunction, then cg.Finish once, then
\* written the warning; cg.Finish never precedes a cg.AddFunction.
C9_CallTrace ==
    /\ pc = "done" =>
          Ops = ExpectedOps(Len(funcs)) \o << <<"cg.Finish", 0>>, <<"LOG", 0>> >>
    /\ \A m \in 1..Len(trace) : \A n \in 1..Len(trace) :
          (trace[m].op = "cg.Finish" /\ trace[n].op = "cg.AddFunction") => n < m

\* C9 witness: a build of three functions has returned.
C9_Witness == pc = "done" /\ Len(funcs) = 3 /\ Len(trace) = 11

\* C10: a failed collaborator call is the last call of the build: the build
\* is left with that error, nothing is returned, nothing is done for a later
\* function, the generator does not receive the function the analyzer
\* failed on, cg.Finish is not called and the locals are gone.
C10_FailureEndsBuild ==
    /\ \A n \in 1..Len(trace) :
          ~trace[n].ok
              => /\ n = Len(trace)
                 /\ pc = "failed"
                 /\ err.origin = trace[n].op
                 /\ err.idx = trace[n].idx
    /\ pc = "failed" =>
          /\ ~live
          /\ ~returned
          /\ Len(trace) > 0
          /\ ~trace[Len(trace)].ok
          /\ \A n \in 1..Len(trace) :
                /\ trace[n].idx <= err.idx
                /\ trace[n].op \notin {"cg.Finish", "LOG"}
                /\ (err.origin \in AnalyzerOrigins /\ trace[n].op = "cg.AddFunction")
                      => trace[n].idx < err.idx

\* C10 witness: the analyzer's Finish failed on the second of three
\* functions.
C10_Witness ==
    /\ pc = "failed"
    /\ Len(funcs) = 3
    /\ err.origin = "ca.Finish"
    /\ err.idx = 2
    /\ Len(trace) = 5

====
